---------------------------- MODULE Spec2Model ----------------------------
(***************************************************************************)
(* Model of the e-commerce trend analyzer: the request surface and         *)
(* aggregator of main.py (TrendRequest validation, get_trends,             *)
(* calculate_market_sentiment) and the four source adapters of             *)
(* api_handlers.py (EcommerceAPIHandler.fetch_*_trends).                   *)
(*                                                                         *)
(* Python values are tagged records: numbers are exact rationals n/d,      *)
(* dicts are functions from key strings to values.  Messages are sequences *)
(* of string tokens, so that f"prefix: {str(e)}" is a concatenation.       *)
(* The timestamp field (datetime.now()) is not modelled.                   *)
(***************************************************************************)
EXTENDS Integers, Sequences, FiniteSets, TLC

(* ------------------------------ bounds -------------------------------- *)
\* number of request tasks the server handles concurrently
MaxReq == 2
\* longest item list a remote source returns to a served request
MaxItems == 2
\* longest item list handed to an adapter that is applied directly
MaxSample == 3

\* api_handlers.py:53  items[:20]
TopN == 20

(* --------------------------- Python values ---------------------------- *)
Abs(x) == IF x < 0 THEN -x ELSE x

RECURSIVE GCD(_, _)
GCD(a, b) == IF b = 0 THEN a ELSE GCD(b, a % b)

\* the number n/d (d > 0), in lowest terms
Num(n, d) == LET g == GCD(Abs(n), d)
             IN  [t |-> "num", n |-> n \div g, d |-> d \div g]
NumI(n) == Num(n, 1)
PyNone == [t |-> "none"]
PyStr(s) == [t |-> "str", s |-> s]
Dict(f) == [t |-> "dict", v |-> f]
List(s) == [t |-> "list", v |-> s]
EmptyDict == Dict([k \in {} |-> PyNone])

\* x / k for a number x and a positive integer k
DivNum(x, k) == Num(x.n, x.d * k)
LeqNum(x, y) == x.n * y.d <= y.n * x.d
\* Python's min(x, y): the first argument unless the second is smaller
MinNum(x, y) == IF LeqNum(x, y) THEN x ELSE y

\* dict.get(key, default)
Get(dict, key, default) ==
    IF key \in DOMAIN dict.v THEN dict.v[key] ELSE default

RECURSIVE SumSeq(_)
SumSeq(s) == IF s = <<>> THEN 0 ELSE Head(s) + SumSeq(Tail(s))
RECURSIVE MinSeq(_)
MinSeq(s) == IF Len(s) = 1 THEN s[1]
             ELSE LET m == MinSeq(Tail(s)) IN IF s[1] <= m THEN s[1] ELSE m
RECURSIVE MaxSeq(_)
MaxSeq(s) == IF Len(s) = 1 THEN s[1]
             ELSE LET m == MaxSeq(Tail(s)) IN IF s[1] >= m THEN s[1] ELSE m
\* s[:n]
Take(s, n) == SubSeq(s, 1, IF Len(s) < n THEN Len(s) ELSE n)
\* all sequences over S of length at most n
SeqsUpTo(S, n) == UNION {[1..k -> S] : k \in 0..n}

(* ------------------- results of an adapter call ----------------------- *)
Raise(m) == [exc |-> TRUE, msg |-> m, data |-> EmptyDict]
Return(d) == [exc |-> FALSE, msg |-> <<>>, data |-> d]

(* ------------- the price summary every marketplace adapter builds ------ *)
\* sum(prices) / len(prices) if prices else 0
AvgPrice_SkewedDenominator(prices) ==
    IF prices # <<>> THEN Num(SumSeq(prices), Len(prices) + 1) ELSE NumI(0)
AvgPrice(prices) ==
    IF prices # <<>> THEN Num(SumSeq(prices), Len(prices)) ELSE NumI(0)
\* {"min": min(prices) if prices else 0, "max": max(prices) if prices else 0}
PriceRangeOf(prices) ==
    Dict([min |-> IF prices # <<>> THEN NumI(MinSeq(prices)) ELSE NumI(0),
          max |-> IF prices # <<>> THEN NumI(MaxSeq(prices)) ELSE NumI(0)])

(* ------------------------- remote sources ----------------------------- *)
\* messages of the failures a remote call can end in
RemoteErrors == {<<"timeout">>}

\* One search result of the catalog source: item.offers (falsy, or a list
\* of listing prices) and item.rating (falsy, or count and value).
AmazonItems ==
    { [offers |-> [has |-> FALSE, listings |-> <<>>],
       rating |-> [has |-> FALSE, count |-> 0, value |-> 0]],
      [offers |-> [has |-> TRUE, listings |-> <<10>>],
       rating |-> [has |-> TRUE, count |-> 7, value |-> 4]],
      [offers |-> [has |-> TRUE, listings |-> <<30>>],
       rating |-> [has |-> TRUE, count |-> 2, value |-> 5]],
      [offers |-> [has |-> TRUE, listings |-> <<20>>],
       rating |-> [has |-> FALSE, count |-> 0, value |-> 0]],
      [offers |-> [has |-> TRUE, listings |-> <<>>],
       rating |-> [has |-> FALSE, count |-> 0, value |-> 0]] }

\* what self.amazon.search_items can do: fail, or return a list of items
AmazonRemote(n) ==
    { [ok |-> FALSE, msg |-> m, items |-> <<>>] : m \in RemoteErrors }
    \cup { [ok |-> TRUE, msg |-> <<>>, items |-> s] : s \in SeqsUpTo(AmazonItems, n) }

\* One active auction listing: with or without a sellingStatus.
EbayItems ==
    { [hasSelling |-> FALSE, price |-> 0],
      [hasSelling |-> TRUE, price |-> 50],
      [hasSelling |-> TRUE, price |-> 70] }

\* searchResult of findItemsAdvanced: the item attribute exists only when
\* the source returned listings; totalEntries is the reported total.
EbayActive(n) ==
    { [ok |-> FALSE, msg |-> m, hasItem |-> FALSE, item |-> <<>>, totalEntries |-> 0]
        : m \in RemoteErrors }
    \cup { [ok |-> TRUE, msg |-> <<>>, hasItem |-> FALSE, item |-> <<>>, totalEntries |-> 0] }
    \cup { [ok |-> TRUE, msg |-> <<>>, hasItem |-> TRUE, item |-> s, totalEntries |-> t]
              : s \in SeqsUpTo(EbayItems, n), t \in {500} }
\* searchResult of findCompletedItems
EbayCompleted ==
    { [ok |-> FALSE, msg |-> m, hasItem |-> FALSE, count |-> 0] : m \in RemoteErrors }
    \cup { [ok |-> TRUE, msg |-> <<>>, hasItem |-> FALSE, count |-> 0],
           [ok |-> TRUE, msg |-> <<>>, hasItem |-> TRUE, count |-> 3] }
EbayRemote(n) ==
    { [active |-> a, completed |-> c] : a \in EbayActive(n), c \in EbayCompleted }

\* One listing of the handmade source.
EtsyListings ==
    { [hasPrice |-> TRUE, price |-> 12, is_handmade |-> TRUE, is_vintage |-> FALSE,
       shop_country |-> "Canada"],
      [hasPrice |-> TRUE, price |-> 40, is_handmade |-> FALSE, is_vintage |-> TRUE,
       shop_country |-> "France"],
      [hasPrice |-> FALSE, price |-> 0, is_handmade |-> FALSE, is_vintage |-> FALSE,
       shop_country |-> "Canada"] }
EtsyRemote(n) ==
    { [ok |-> FALSE, msg |-> m, listings |-> <<>>] : m \in RemoteErrors }
    \cup { [ok |-> TRUE, msg |-> <<>>, listings |-> s] : s \in SeqsUpTo(EtsyListings, n) }

\* The search-interest source: the interest_over_time frame (empty or
\* rows of date and value) and the related queries / topics frames, each
\* of which may be None.
GoogleFrames == { [isNone |-> TRUE, rows |-> <<>>], [isNone |-> FALSE, rows |-> <<"row">>] }
GoogleRemote ==
    { [ok |-> FALSE, msg |-> m, interest |-> <<>>, q_top |-> f, q_rising |-> f,
       t_top |-> f, t_rising |-> f] : m \in RemoteErrors, f \in {[isNone |-> TRUE, rows |-> <<>>]} }
    \cup { [ok |-> TRUE, msg |-> <<>>, interest |-> i, q_top |-> a, q_rising |-> b,
             t_top |-> c, t_rising |-> c]
              : i \in { <<>>, <<[date |-> "2024-01-07", value |-> 40],
                                [date |-> "2024-01-14", value |-> 60]>> },
                a \in GoogleFrames, b \in GoogleFrames, c \in GoogleFrames }

(* --------------------------- the adapters ----------------------------- *)
RECURSIVE AmazonPrices(_)
\* prices.append(item.offers.listings[0].price.amount) for items with offers
AmazonPrices(items) ==
    IF items = <<>> THEN <<>>
    ELSE (IF Head(items).offers.has THEN <<Head(items).offers.listings[1]>> ELSE <<>>)
         \o AmazonPrices(Tail(items))
RECURSIVE AmazonReviews(_)
AmazonReviews(items) ==
    IF items = <<>> THEN 0
    ELSE (IF Head(items).rating.has THEN Head(items).rating.count ELSE 0)
         + AmazonReviews(Tail(items))
RECURSIVE AmazonRating(_)
AmazonRating(items) ==
    IF items = <<>> THEN 0
    ELSE (IF Head(items).rating.has THEN Head(items).rating.value ELSE 0)
         + AmazonRating(Tail(items))

fetch_amazon_trends(remote) ==
    IF ~remote.ok THEN Raise(<<"Amazon", " API error: ">> \o remote.msg)
    ELSE LET top == Take(remote.items, TopN)
             product_count == Len(top)
         IN  IF \E i \in DOMAIN top : top[i].offers.has /\ top[i].offers.listings = <<>>
             THEN Raise(<<"Amazon", " API error: ", "list index out of range">>)
             ELSE LET prices == AmazonPrices(top)
                  IN  Return(Dict(
                        [avg_price |-> AvgPrice(prices),
                         price_range |-> PriceRangeOf(prices),
                         review_count |-> NumI(AmazonReviews(top)),
                         avg_rating |-> IF product_count > 0
                                        THEN Num(AmazonRating(top), product_count)
                                        ELSE NumI(0),
                         total_products |-> NumI(product_count)]))

RECURSIVE EbayPrices(_)
\* prices of the items that have a sellingStatus
EbayPrices(items) ==
    IF items = <<>> THEN <<>>
    ELSE (IF Head(items).hasSelling THEN <<Head(items).price>> ELSE <<>>)
         \o EbayPrices(Tail(items))

fetch_ebay_trends(remote) ==
    LET results == remote.active
        completed_results == remote.completed
    IN  IF ~results.ok THEN Raise(<<"eBay", " API error: ">> \o results.msg)
        ELSE IF ~completed_results.ok
        THEN Raise(<<"eBay", " API error: ">> \o completed_results.msg)
        ELSE IF ~results.hasItem
        THEN \* for item in results.item: AttributeError
             Raise(<<"eBay", " API error: ", "object has no attribute 'item'">>)
        ELSE LET prices == EbayPrices(results.item)
             IN  Return(Dict(
                   [active_listings |-> NumI(results.totalEntries),
                    sold_last_month |-> IF completed_results.hasItem
                                        THEN NumI(completed_results.count)
                                        ELSE NumI(0),
                    avg_price |-> AvgPrice(prices),
                    price_range |-> PriceRangeOf(prices),
                    total_results |-> IF results.hasItem
                                      THEN NumI(Len(results.item))
                                      ELSE NumI(0)]))

RECURSIVE EtsyPrices(_)
EtsyPrices(listings) ==
    IF listings = <<>> THEN <<>>
    ELSE <<Head(listings).price>> \o EtsyPrices(Tail(listings))
RECURSIVE EtsyCount(_, _)
\* how many listings have field f set to value v
EtsyCount(listings, fv) ==
    IF listings = <<>> THEN 0
    ELSE (IF Head(listings)[fv[1]] = fv[2] THEN 1 ELSE 0) + EtsyCount(Tail(listings), fv)

fetch_etsy_trends(remote, country) ==
    IF ~remote.ok THEN Raise(<<"Etsy", " API error: ">> \o remote.msg)
    ELSE LET listings == remote.listings
             total_listings == Len(listings)
         IN  IF \E i \in DOMAIN listings : ~listings[i].hasPrice
             THEN \* listing['price']: KeyError
                  Raise(<<"Etsy", " API error: ", "'price'">>)
             ELSE LET prices == EtsyPrices(listings)
                      domestic == EtsyCount(listings, <<"shop_country", country>>)
                      international == total_listings - domestic
                  IN  Return(Dict(
                        [total_listings |-> NumI(total_listings),
                         avg_price |-> AvgPrice(prices),
                         price_range |-> PriceRangeOf(prices),
                         handmade_count |-> NumI(EtsyCount(listings, <<"is_handmade", TRUE>>)),
                         vintage_count |-> NumI(EtsyCount(listings, <<"is_vintage", TRUE>>)),
                         shop_location_distribution |-> Dict(
                           [domestic |-> IF total_listings > 0
                                         THEN Num(domestic, total_listings) ELSE NumI(0),
                            international |-> IF total_listings > 0
                                              THEN Num(international, total_listings)
                                              ELSE NumI(0)])]))

GoogleRecords(frame) == IF ~frame.isNone THEN List(frame.rows) ELSE List(<<>>)

fetch_google_trends(remote) ==
    IF ~remote.ok THEN Raise(<<"Google Trends", " API error: ">> \o remote.msg)
    ELSE Return(Dict(
           [interest_over_time |->
                IF remote.interest # <<>>
                THEN Dict([dates |-> List([i \in DOMAIN remote.interest |->
                                              remote.interest[i].date]),
                           values |-> List([i \in DOMAIN remote.interest |->
                                              remote.interest[i].value])])
                ELSE EmptyDict,
            related_queries |-> Dict([top |-> GoogleRecords(remote.q_top),
                                      rising |-> GoogleRecords(remote.q_rising)]),
            related_topics |-> Dict([top |-> GoogleRecords(remote.t_top),
                                     rising |-> GoogleRecords(remote.t_rising)])]))

(* ----------------------------- main.py -------------------------------- *)
\* class Platform(str, Enum)
Platform_WithEtsy == {"amazon", "ebay", "google", "etsy"}
Platform == {"amazon", "ebay", "google"}

\* the source names a client may put in a request body
InboundSources == {"amazon", "ebay", "etsy", "google"}

\* the dispatch table built in get_trends
handlers == [p \in {"amazon", "ebay", "google"} |->
               CASE p = "amazon" -> "fetch_amazon_trends"
                 [] p = "ebay" -> "fetch_ebay_trends"
                 [] p = "google" -> "fetch_google_trends"]

Half == Num(1, 2)

\* One branch of the try body of calculate_market_sentiment:
\*   sub = trend_data.get(outer, {}); x = sub.get(inner, 0)
\*   return min(x / scale, 1.0)
\* .get on a non-dict and / on a non-number raise.
ScoreField(trend_data, outer, inner, scale) ==
    LET sub == Get(trend_data, outer, EmptyDict)
    IN  IF sub.t # "dict" THEN [exc |-> TRUE, v |-> NumI(0)]
        ELSE LET x == Get(sub, inner, NumI(0))
             IN  IF x.t # "num" THEN [exc |-> TRUE, v |-> NumI(0)]
                 ELSE [exc |-> FALSE, v |-> MinNum(DivNum(x, scale), NumI(1))]

\* the try body of calculate_market_sentiment
Scoring_MissingIsNeutral(trend_data, platform) ==
    LET present(outer) == outer \in DOMAIN trend_data.v
    IN  IF platform = "amazon" /\ present("review_metrics")
        THEN ScoreField(trend_data, "review_metrics", "avg_rating", 5)
        ELSE IF platform = "ebay" /\ present("condition_distribution")
        THEN ScoreField(trend_data, "condition_distribution", "New", 100)
        ELSE IF platform = "google" /\ present("trend_summary")
        THEN ScoreField(trend_data, "trend_summary", "average_interest", 100)
        ELSE [exc |-> FALSE, v |-> Half]
Scoring(trend_data, platform) ==
    IF platform = "amazon"
    THEN ScoreField(trend_data, "review_metrics", "avg_rating", 5)
    ELSE IF platform = "ebay"
    THEN ScoreField(trend_data, "condition_distribution", "New", 100)
    ELSE IF platform = "google"
    THEN ScoreField(trend_data, "trend_summary", "average_interest", 100)
    ELSE [exc |-> FALSE, v |-> Half]

\* try: ... except Exception: return 0.5
calculate_market_sentiment(trend_data, platform) ==
    LET r == Scoring(trend_data, platform)
    IN  IF r.exc THEN Half ELSE r.v

HttpError(status, detail) == [status |-> status, detail |-> detail, body |-> PyNone]
HttpOk(body) == [status |-> 200, detail |-> <<>>, body |-> body]

\* FastAPI's answer to a body that TrendRequest does not validate
ValidationError == HttpError(422, <<"value is not a valid enumeration member">>)

\* except Exception as e: raise HTTPException(500, f"Error processing request: {str(e)}")
WrapError_Generic(msg) == HttpError(500, <<"Error processing request">>)
WrapError(msg) == HttpError(500, <<"Error processing request: ">> \o msg)

\* price_range=PriceRange(min=..., max=...) if "price_range" in trend_data else None
ResponsePriceRange_OnlyPositive(trend_data) ==
    IF "price_range" \in DOMAIN trend_data.v
       /\ Get(Get(trend_data, "price_range", EmptyDict), "max", NumI(0)).n > 0
    THEN Dict([min |-> Get(Get(trend_data, "price_range", EmptyDict), "min", NumI(0)),
               max |-> Get(Get(trend_data, "price_range", EmptyDict), "max", NumI(0))])
    ELSE PyNone
ResponsePriceRange(trend_data) ==
    IF "price_range" \in DOMAIN trend_data.v
    THEN Dict([min |-> Get(Get(trend_data, "price_range", EmptyDict), "min", NumI(0)),
               max |-> Get(Get(trend_data, "price_range", EmptyDict), "max", NumI(0))])
    ELSE PyNone

\* search_volume=trend_data.get("total_products", 0)
ResponseSearchVolume_TotalResults(trend_data) ==
    Get(trend_data, "total_results", Get(trend_data, "total_products", NumI(0)))
ResponseSearchVolume(trend_data) == Get(trend_data, "total_products", NumI(0))

\* TrendData(...) as get_trends builds it from the adapter's payload
TrendData(request, trend_data) ==
    Dict([platform |-> PyStr(request.platform),
          country |-> PyStr(request.country),
          keyword |-> PyStr(request.keyword),
          trend_data |-> trend_data,
          price_range |-> ResponsePriceRange(trend_data),
          search_volume |-> ResponseSearchVolume(trend_data),
          market_sentiment |-> calculate_market_sentiment(trend_data, request.platform)])

\* get_trends when no handler is registered: the HTTPException(400) raised
\* inside the try block is caught by its own except Exception clause
Unsupported(request) ==
    WrapError(<<"400: ", "Unsupported platform: ", request.platform>>)

\* get_trends after the awaited adapter call has returned or raised
Respond(request, fetched) ==
    IF fetched.exc THEN WrapError(fetched.msg)
    ELSE HttpOk(TrendData(request, fetched.data))

\* what the remote source of a platform can answer
RemoteOf(platform, n) ==
    CASE platform = "amazon" -> AmazonRemote(n)
      [] platform = "ebay" -> EbayRemote(n)
      [] platform = "google" -> GoogleRemote
      [] OTHER -> EtsyRemote(n)

\* handler(request.keyword, request.country [, request.timeframe])
CallAdapter(name, request, remote) ==
    CASE name = "fetch_amazon_trends" -> fetch_amazon_trends(remote)
      [] name = "fetch_ebay_trends" -> fetch_ebay_trends(remote)
      [] name = "fetch_google_trends" -> fetch_google_trends(remote)
      [] OTHER -> fetch_etsy_trends(remote, request.country)

(* --------------------------- the server ------------------------------- *)
VARIABLES
    pc,        \* pc[r]: where request task r is
    request,   \* request[r]: the validated TrendRequest of task r
    calls,     \* calls[r]: the adapters invoked for task r, in order
    loop,      \* the task that holds the event loop's thread, 0 when free
    sent,      \* the exchange being answered: request, remote answer, response
    fnIn,      \* a function applied directly: its name and arguments
    fnOut      \* and its result

vars == <<pc, request, calls, loop, sent, fnIn, fnOut>>

Requests == 1..MaxReq

NoRequest == [platform |-> "", country |-> "", keyword |-> "", timeframe |-> ""]
NoRemote == [kind |-> "none"]
NoCall == [fn |-> "none"]
NoResult == [done |-> FALSE]

\* no exchange is being answered: a response is discarded once it is sent
NoExchange == [rid |-> 0, request |-> NoRequest, remote |-> NoRemote,
               response |-> HttpError(0, <<>>)]

Bodies == { [platform |-> p, country |-> "Canada", keyword |-> "smart watch",
             timeframe |-> "today 3-m"] : p \in InboundSources }

ServerInit ==
    /\ pc = [r \in Requests |-> "idle"]
    /\ request = [r \in Requests |-> NoRequest]
    /\ calls = [r \in Requests |-> <<>>]
    /\ loop = 0
    /\ sent = NoExchange

Init == ServerInit /\ fnIn = NoCall /\ fnOut = NoResult

\* POST /trends/: the body is parsed into a TrendRequest; a platform that
\* is no member of Platform is answered 422 and get_trends never runs.
Post(r) ==
    /\ pc[r] = "idle"
    /\ loop = 0
    /\ \E body \in Bodies :
         IF body.platform \in Platform
         THEN /\ request' = [request EXCEPT ![r] = body]
              /\ pc' = [pc EXCEPT ![r] = "ready"]
              /\ sent' = NoExchange
         ELSE /\ request' = [request EXCEPT ![r] = body]
              /\ pc' = [pc EXCEPT ![r] = "done"]
              /\ sent' = [rid |-> r, request |-> body, remote |-> NoRemote,
                          response |-> ValidationError]
    /\ UNCHANGED <<calls, loop, fnIn, fnOut>>

\* get_trends up to the adapter call: look the handler up and invoke it.
\* The adapter makes its remote call synchronously, so the task keeps the
\* event loop's thread until that call returns.
Dispatch(r) ==
    /\ pc[r] = "ready"
    /\ loop = 0
    /\ IF request[r].platform \in DOMAIN handlers
       THEN /\ calls' = [calls EXCEPT ![r] = Append(@, handlers[request[r].platform])]
            /\ loop' = r
            /\ pc' = [pc EXCEPT ![r] = "inRemote"]
            /\ sent' = NoExchange
       ELSE /\ sent' = [rid |-> r, request |-> request[r], remote |-> NoRemote,
                        response |-> Unsupported(request[r])]
            /\ pc' = [pc EXCEPT ![r] = "done"]
            /\ UNCHANGED <<calls, loop>>
    /\ UNCHANGED <<request, fnIn, fnOut>>

\* The remote source answers; the adapter and the rest of get_trends run
\* to the end and the response is sent.
RemoteReturn(r) ==
    /\ pc[r] = "inRemote"
    /\ loop = r
    /\ \E remote \in RemoteOf(request[r].platform, MaxItems) :
         sent' = [rid |-> r, request |-> request[r],
                  remote |-> [kind |-> request[r].platform, r |-> remote],
                  response |-> Respond(request[r],
                                 CallAdapter(calls[r][Len(calls[r])], request[r], remote))]
    /\ pc' = [pc EXCEPT ![r] = "done"]
    /\ loop' = 0
    /\ UNCHANGED <<request, calls, fnIn, fnOut>>

\* The remote source never answers: the synchronous call never returns.
RemoteStall(r) ==
    /\ pc[r] = "inRemote"
    /\ loop = r
    /\ pc' = [pc EXCEPT ![r] = "stalled"]
    /\ sent' = NoExchange
    /\ UNCHANGED <<request, calls, loop, fnIn, fnOut>>

Next == \E r \in Requests : Post(r) \/ Dispatch(r) \/ RemoteReturn(r) \/ RemoteStall(r)

Spec == Init /\ [][Next]_vars

\* The event loop runs every ready task when its thread is free, and a
\* remote call that does not stall returns.
FairSpec == Spec /\ \A r \in Requests : WF_vars(Dispatch(r)) /\ WF_vars(RemoteReturn(r))

(* ------------- functions applied directly to their inputs ------------- *)
\* values a payload field can hold: numbers in and out of the nominal
\* range, and values of the wrong type
FieldValues ==
    { NumI(-5), NumI(0), NumI(3), NumI(5), NumI(50), NumI(100), NumI(250),
      PyNone, PyStr("4.5"), EmptyDict }

\* payloads for calculate_market_sentiment: no summary field, a summary
\* field that is no dict, or a summary dict with or without its value
SentimentPayloads ==
    {EmptyDict}
    \cup { Dict([k \in {f[1]} |-> bad]) :
             f \in {<<"review_metrics", "avg_rating">>,
                    <<"condition_distribution", "New">>,
                    <<"trend_summary", "average_interest">>},
             bad \in {PyNone, PyStr("n/a"), NumI(3)} }
    \cup { Dict([k \in {f[1]} |-> EmptyDict]) :
             f \in {<<"review_metrics", "avg_rating">>,
                    <<"condition_distribution", "New">>,
                    <<"trend_summary", "average_interest">>} }
    \cup { Dict([k \in {f[1]} |-> Dict([j \in {f[2]} |-> x])]) :
             f \in {<<"review_metrics", "avg_rating">>,
                    <<"condition_distribution", "New">>,
                    <<"trend_summary", "average_interest">>},
             x \in FieldValues }

SentimentCalls ==
    { [fn |-> "calculate_market_sentiment", platform |-> p, trend_data |-> d] :
        p \in InboundSources, d \in SentimentPayloads }

AdapterCalls ==
    { [fn |-> handlers[b.platform], request |-> b, remote |-> x] :
        b \in {c \in Bodies : c.platform = "amazon"}, x \in AmazonRemote(MaxSample) }
    \cup { [fn |-> handlers[b.platform], request |-> b, remote |-> x] :
        b \in {c \in Bodies : c.platform = "ebay"}, x \in EbayRemote(MaxSample) }
    \cup { [fn |-> handlers[b.platform], request |-> b, remote |-> x] :
        b \in {c \in Bodies : c.platform = "google"}, x \in GoogleRemote }
    \cup { [fn |-> "fetch_etsy_trends", request |-> b, remote |-> x] :
        b \in {c \in Bodies : c.platform = "etsy"}, x \in EtsyRemote(MaxSample) }

LibInit == ServerInit /\ fnOut = NoResult /\ fnIn \in SentimentCalls \cup AdapterCalls

ApplySentiment ==
    /\ fnIn.fn = "calculate_market_sentiment"
    /\ ~fnOut.done
    /\ fnOut' = [done |-> TRUE,
                 value |-> calculate_market_sentiment(fnIn.trend_data, fnIn.platform)]
    /\ UNCHANGED <<pc, request, calls, loop, sent, fnIn>>

ApplyAdapter ==
    /\ fnIn.fn \in {"fetch_amazon_trends", "fetch_ebay_trends", "fetch_google_trends",
                    "fetch_etsy_trends"}
    /\ ~fnOut.done
    /\ fnOut' = [done |-> TRUE, result |-> CallAdapter(fnIn.fn, fnIn.request, fnIn.remote)]
    /\ UNCHANGED <<pc, request, calls, loop, sent, fnIn>>

LibNext == ApplySentiment \/ ApplyAdapter

LibSpec == LibInit /\ [][LibNext]_vars

(* ------------------------------ claims -------------------------------- *)
\* a request has just been answered
Answered == sent.rid # 0
Succeeded == Answered /\ sent.response.status = 200
SentPlatform == sent.request.platform
SentPayload == sent.response.body.v.trend_data
SentBody == sent.response.body.v

\* m occurs in s as a run of consecutive tokens
Contains(s, m) ==
    \E i \in 0..(Len(s) - Len(m)) : SubSeq(s, i + 1, i + Len(m)) = m

\* the name by which each adapter's failure message calls its source
SourceLabel(platform) ==
    CASE platform = "amazon" -> "Amazon"
      [] platform = "ebay" -> "eBay"
      [] platform = "google" -> "Google Trends"
      [] OTHER -> "Etsy"

\* the price sample the adapter collected from the remote answer
PriceSample(platform, remote) ==
    CASE platform = "amazon" -> AmazonPrices(Take(remote.items, TopN))
      [] platform = "ebay" -> EbayPrices(remote.active.item)
      [] platform = "etsy" -> EtsyPrices(remote.listings)
      [] OTHER -> <<>>

IsZeroRange(range) ==
    range.t = "dict" /\ range.v.min = NumI(0) /\ range.v.max = NumI(0)

\* C1: a request whose source has no handler in the dispatch table (such
\* as "etsy") is answered without any adapter being invoked for it, and
\* with an invalid-input (4xx) status, which a source-fetch failure (500)
\* never carries.
C1_UnsupportedRejectedBeforeFetch ==
    /\ \A r \in Requests :
         request[r].platform \notin DOMAIN handlers => calls[r] = <<>>
    /\ (Answered /\ SentPlatform \notin DOMAIN handlers) =>
         /\ sent.remote.kind = "none"
         /\ sent.response.status \in 400..499
         /\ sent.response.body.t = "none"
    /\ (Answered /\ sent.remote.kind # "none") => sent.response.status \notin 400..499

\* C1 witness: an "etsy" request has been answered 422 with no adapter call
C1_Witness ==
    /\ Answered
    /\ SentPlatform = "etsy"
    /\ sent.response.status = 422
    /\ calls[sent.rid] = <<>>

\* C2: calculate_market_sentiment returns a value in [0,1] for every
\* source and payload, and exactly 0.5 whenever scoring raised.
C2_SentimentInUnitInterval ==
    (fnOut.done /\ fnIn.fn = "calculate_market_sentiment") =>
        /\ fnOut.value.t = "num"
        /\ LeqNum(NumI(0), fnOut.value)
        /\ LeqNum(fnOut.value, NumI(1))
        /\ Scoring(fnIn.trend_data, fnIn.platform).exc => fnOut.value = Half

\* C3: the sentiment of a successful amazon response is
\* min(avg_rating / 5.0, 1.0) for the avg_rating the adapter computed.
C3_AmazonSentimentFromAvgRating ==
    (Succeeded /\ SentPlatform = "amazon") =>
        SentBody.market_sentiment = MinNum(DivNum(SentPayload.v.avg_rating, 5), NumI(1))

\* C4 as stated: a successful response has a price_range if and only if
\* the adapter observed at least one price.
C4_RangeIffPricesObserved ==
    Succeeded =>
        (SentBody.price_range.t # "none"
           <=> PriceSample(SentPlatform, sent.remote.r) # <<>>)

\* C4 as amended: a successful response has a price_range if and only if
\* the adapter's payload has a price_range entry; amazon and ebay payloads
\* always have one, equal to {min: 0, max: 0} when no price was observed,
\* and google payloads never have one.
C4_RangeIffPayloadHasRange ==
    Succeeded =>
        /\ SentBody.price_range.t # "none" <=> "price_range" \in DOMAIN SentPayload.v
        /\ SentPlatform \in {"amazon", "ebay"} =>
             /\ SentBody.price_range.t = "dict"
             /\ SentBody.price_range.v.min = SentPayload.v.price_range.v.min
             /\ SentBody.price_range.v.max = SentPayload.v.price_range.v.max
             /\ PriceSample(SentPlatform, sent.remote.r) = <<>>
                  => IsZeroRange(SentBody.price_range)
        /\ SentPlatform = "google" => SentBody.price_range.t = "none"

\* C4 witness: a successful amazon response over results none of which has
\* an offer carries the price_range {0, 0}
C4_Witness ==
    /\ Succeeded
    /\ SentPlatform = "amazon"
    /\ Len(sent.remote.r.items) > 0
    /\ PriceSample(SentPlatform, sent.remote.r) = <<>>
    /\ IsZeroRange(SentBody.price_range)

\* C5 as stated: search_volume is the payload's total_products when the
\* payload has that field and is omitted (None) when it has not.
C5_VolumeOmittedWhenMissing ==
    Succeeded =>
        IF "total_products" \in DOMAIN SentPayload.v
        THEN SentBody.search_volume = SentPayload.v.total_products
        ELSE SentBody.search_volume.t = "none"

\* C5 as amended: search_volume is the payload's total_products when the
\* payload has that field and is 0 when it has not (ebay, google).
C5_VolumeZeroWhenMissing ==
    Succeeded =>
        /\ SentBody.search_volume.t = "num"
        /\ IF "total_products" \in DOMAIN SentPayload.v
           THEN SentBody.search_volume = SentPayload.v.total_products
           ELSE SentBody.search_volume = NumI(0)
        /\ "total_products" \in DOMAIN SentPayload.v <=> SentPlatform = "amazon"

\* C5 witness: a successful ebay response over two listings reports
\* search_volume 0
C5_Witness ==
    /\ Succeeded
    /\ SentPlatform = "ebay"
    /\ SentPayload.v.total_results = NumI(2)
    /\ SentBody.search_volume = NumI(0)

\* the remote call of the request just answered failed
RemoteFailed ==
    /\ Answered
    /\ CASE sent.remote.kind = "none" -> FALSE
         [] sent.remote.kind = "ebay" ->
              ~sent.remote.r.active.ok \/ ~sent.remote.r.completed.ok
         [] OTHER -> ~sent.remote.r.ok
\* the message of that failure
RemoteFailure ==
    CASE sent.remote.kind = "ebay" ->
           IF ~sent.remote.r.active.ok THEN sent.remote.r.active.msg
           ELSE sent.remote.r.completed.msg
      [] OTHER -> sent.remote.r.msg

\* C6: when the selected adapter's remote call fails, the request ends in
\* one failure response (status 500, no TrendData) whose message contains
\* the source's name and the original failure message, and exactly one
\* adapter call, that of the request's own source, was made for it; every
\* failure of a dispatched request names the source and carries no body.
C6_FetchFailureIsSingleWrappedFailure ==
    /\ RemoteFailed =>
         /\ sent.response.status = 500
         /\ sent.response.body.t = "none"
         /\ Contains(sent.response.detail, <<SourceLabel(SentPlatform)>>)
         /\ Contains(sent.response.detail, RemoteFailure)
         /\ calls[sent.rid] = <<handlers[SentPlatform]>>
    /\ (Answered /\ sent.remote.kind # "none" /\ sent.response.status # 200) =>
         /\ sent.response.status = 500
         /\ sent.response.body.t = "none"
         /\ Contains(sent.response.detail, <<SourceLabel(SentPlatform)>>)
    /\ \A r \in Requests : Len(calls[r]) <= 1

\* C6 witness: an ebay request whose second remote query failed has been
\* answered 500
C6_Witness ==
    /\ RemoteFailed
    /\ SentPlatform = "ebay"
    /\ sent.remote.r.active.ok
    /\ sent.response.status = 500

\* C7: every accepted request eventually completes unless its own remote
\* call stalls, whatever the remote calls of the other requests do.
C7_StallBlocksOnlyItsOwnRequest ==
    \A r \in Requests : (pc[r] = "ready") ~> (pc[r] \in {"done", "stalled"})

\* the adapter applied directly has returned a payload over price sample P
AdapterReturned ==
    /\ fnOut.done
    /\ fnIn.fn \in {"fetch_amazon_trends", "fetch_ebay_trends", "fetch_etsy_trends"}
    /\ ~fnOut.result.exc

\* C8: for the amazon, ebay and etsy adapters and every price sample P,
\* avg_price is 0 and price_range is {0, 0} when P is empty; otherwise
\* avg_price is the arithmetic mean of P and price_range.min / max are the
\* smallest / largest element of P.
C8_PriceSummaryOfSample ==
    AdapterReturned =>
        LET P == PriceSample(fnIn.request.platform, fnIn.remote)
            data == fnOut.result.data.v
        IN  IF P = <<>>
            THEN data.avg_price = NumI(0) /\ IsZeroRange(data.price_range)
            ELSE /\ data.avg_price.n * Len(P) = SumSeq(P) * data.avg_price.d
                 /\ data.avg_price.d > 0
                 /\ data.price_range.v.min.d = 1
                 /\ data.price_range.v.max.d = 1
                 /\ \E i \in DOMAIN P : P[i] = data.price_range.v.min.n
                 /\ \E i \in DOMAIN P : P[i] = data.price_range.v.max.n
                 /\ \A i \in DOMAIN P : /\ data.price_range.v.min.n <= P[i]
                                        /\ P[i] <= data.price_range.v.max.n

\* C8 witness: the etsy adapter has summarised a sample of three prices
\* that are not all equal
C8_Witness ==
    /\ AdapterReturned
    /\ fnIn.fn = "fetch_etsy_trends"
    /\ Len(PriceSample("etsy", fnIn.remote)) = 3
    /\ fnOut.result.data.v.price_range.v.min # fnOut.result.data.v.price_range.v.max

\* C9: when the active search result of an ebay request carries no item
\* list (and both remote queries answered), the request succeeds with
\* avg_price 0, price_range {0, 0} and total_results 0.
C9_NoListingsIsNotFailure ==
    (/\ Answered
     /\ sent.remote.kind = "ebay"
     /\ sent.remote.r.active.ok
     /\ sent.remote.r.completed.ok
     /\ ~sent.remote.r.active.hasItem) =>
        /\ sent.response.status = 200
        /\ SentPayload.v.avg_price = NumI(0)
        /\ IsZeroRange(SentPayload.v.price_range)
        /\ SentPayload.v.total_results = NumI(0)

\* C10 as stated: the sentiment of every successful ebay or google
\* response is the neutral default 0.5.
C10_MissingSummaryIsNeutral ==
    (Succeeded /\ SentPlatform \in {"ebay", "google"}) =>
        SentBody.market_sentiment = Half

\* C10 as amended: the payload of every successful ebay or google response
\* lacks the summary field its sentiment rule reads, and the sentiment is
\* 0.0 (the missing value defaults to 0), not 0.5.
C10_MissingSummaryIsZero ==
    (Succeeded /\ SentPlatform \in {"ebay", "google"}) =>
        /\ "condition_distribution" \notin DOMAIN SentPayload.v
        /\ "trend_summary" \notin DOMAIN SentPayload.v
        /\ SentBody.market_sentiment = NumI(0)

\* C10 witness: a successful google response with a non-empty interest
\* series has sentiment 0.0
C10_Witness ==
    /\ Succeeded
    /\ SentPlatform = "google"
    /\ sent.remote.r.interest # <<>>
    /\ SentBody.market_sentiment = NumI(0)
=============================================================================
